---- MODULE Spec2Model ----
(***************************************************************************)
(* Resource-hog subsystem of the backend: the controller                   *)
(* (controllers/hogController.js: startHog, stopHog, getHogStatus and the  *)
(* hogState singleton) and the worker thread it spawns                     *)
(* (workers/hogWorker.js).                                                 *)
(*                                                                         *)
(* An optional value (null or x) is the sequence <<>> or <<x>>.  A query   *)
(* parameter is the sequence of its characters, <<>> when it is absent or  *)
(* empty (both are falsy for the `||` of parseConfig).                     *)
(***************************************************************************)
EXTENDS Integers, Sequences, FiniteSets, TLC

\* ---------------------------------------------------------------- bounds
MaxWorkers == 2      \* worker threads the model lets the controller spawn
MaxSteps == 1        \* sub-minute clock instants observed after each minute
MaxMinutesElapsed == 1   \* whole minutes the clock can advance
StepMs == 1500       \* distance between two observed clock instants
MaxRawLen == 1       \* length of the generated raw query parameters

\* ------------------------------------------------------- program constants
GraceMs == 1000
ChunkSize == 8 * 1024 * 1024
MiB == 1024 * 1024
MinuteMs == 60 * 1000

Null == <<>>
Some(x) == <<x>>

\* ------------------------------------------------------------ parseConfig
DigitChars == <<"0", "1", "2", "3", "4", "5", "6", "7", "8", "9">>
IsDigit(c) == \E i \in 1..10 : DigitChars[i] = c
DigitVal(c) == (CHOOSE i \in 1..10 : DigitChars[i] = c) - 1

RECURSIVE SkipSpace(_)
SkipSpace(s) == IF s # <<>> /\ Head(s) = " " THEN SkipSpace(Tail(s)) ELSE s

\* value of the longest prefix of digits of s, continuing acc; seen tells
\* whether a digit has been read; the result is NaN (<<>>) without a digit
RECURSIVE ParseDigits(_, _, _)
ParseDigits(s, acc, seen) ==
    IF s # <<>> /\ IsDigit(Head(s))
    THEN ParseDigits(Tail(s), acc * 10 + DigitVal(Head(s)), TRUE)
    ELSE IF seen THEN Some(acc) ELSE Null

\* parseInt(s, 10): NaN is <<>>, the integer n is <<n>>
ParseInt(s) ==
    LET t == SkipSpace(s)
    IN  IF t # <<>> /\ Head(t) = "-"
        THEN LET r == ParseDigits(Tail(t), 0, FALSE)
             IN  IF r = Null THEN Null ELSE Some(0 - r[1])
        ELSE IF t # <<>> /\ Head(t) = "+"
        THEN ParseDigits(Tail(t), 0, FALSE)
        ELSE ParseDigits(t, 0, FALSE)

\* raw || dflt on a query parameter: the empty or absent string is falsy
StrOr(raw, dflt) == IF raw = <<>> THEN dflt ELSE raw

\* n || dflt on a parseInt result: NaN and 0 are falsy
NumOr(r, dflt) == IF r = Null \/ r = Some(0) THEN dflt ELSE r[1]

Min(a, b) == IF a < b THEN a ELSE b
Max(a, b) == IF a > b THEN a ELSE b

\* the clamp without its upper limit
ParseField_noMin(raw, lo, hi, dfltStr, dflt) ==
    Max(lo, NumOr(ParseInt(StrOr(raw, dfltStr)), dflt))

\* Math.max(lo, Math.min(hi, parseInt(raw || 'dflt', 10) || dflt))
ParseField(raw, lo, hi, dfltStr, dflt) ==
    Max(lo, Min(hi, NumOr(ParseInt(StrOr(raw, dfltStr)), dflt)))

parseConfig(query) ==
    [memoryMb            |-> ParseField(query.memoryMb, 0, 2048, <<"2", "5", "6">>, 256),
     cpuSliceMs          |-> ParseField(query.cpuSliceMs, 1, 200, <<"2", "0">>, 20),
     maxMinutes          |-> ParseField(query.maxMinutes, 1, 120, <<"1", "0">>, 10),
     intensityMultiplier |-> ParseField(query.intensityMultiplier, 1, 100, <<"2">>, 2)]

\* the decimal digits of the integer n, as String(n) and JSON.stringify
\* write it
RECURSIVE NatToStr(_)
NatToStr(n) ==
    IF n < 10 THEN <<DigitChars[n + 1]>>
    ELSE NatToStr(n \div 10) \o <<DigitChars[(n % 10) + 1]>>
IntToStr(n) == IF n < 0 THEN <<"-">> \o NatToStr(0 - n) ELSE NatToStr(n)

\* a serialisation that writes the last digit of every number only
JSONStringify_lastDigit(config) ==
    [k \in DOMAIN config |-> IntToStr(config[k] % 10)]

\* JSON.stringify(config): every field of the configuration as a number
\* literal
JSONStringify(config) == [k \in DOMAIN config |-> IntToStr(config[k])]

\* JSON.parse of that text: every number literal read back
JSONParse(text) == [k \in DOMAIN text |-> ParseInt(text[k])[1]]

\* the query strings the start requests of the model carry
Queries ==
    { [memoryMb |-> <<"1", "2">>, cpuSliceMs |-> <<>>, maxMinutes |-> <<"1">>,
       intensityMultiplier |-> <<"a", "b", "c">>],
      [memoryMb |-> <<"-", "5">>, cpuSliceMs |-> <<"0">>, maxMinutes |-> <<"1">>,
       intensityMultiplier |-> <<>>] }

\* raw values of one query parameter: every string of at most MaxRawLen
\* characters, and some longer ones
RawAlphabet == {"-", "0", "5", "a"}
LongRaws ==
    { <<"5", "0", "0", "0">>, <<"2", "0", "0">>, <<"1", "5", "0">>,
      <<"a", "b", "c">>, <<"-", "5">>, <<"1", "2", "a">> }
RawValues ==
    UNION { [1..n -> RawAlphabet] : n \in 0..MaxRawLen } \cup LongRaws
RawQueries ==
    [memoryMb : RawValues, cpuSliceMs : RawValues, maxMinutes : RawValues,
     intensityMultiplier : RawValues]

\* ------------------------------------------------------------------ time
\* the instants at which the clock is observed
Instants ==
    { m * MinuteMs + k * StepMs : m \in 0..MaxMinutesElapsed, k \in 0..MaxSteps }
MaxInstant == MaxMinutesElapsed * MinuteMs + MaxSteps * StepMs

\* new Date().toISOString(): seconds and milliseconds of the instant
ToISOString(t) == [sec |-> t \div 1000, ms |-> t % 1000]
\* new Date(iso).getTime()
GetTime(iso) == iso.sec * 1000 + iso.ms

\* Runtime without the division by 1000 and the floor: milliseconds
Runtime_millis(startedAt, t) ==
    IF startedAt # Null THEN t - GetTime(startedAt[1]) ELSE 0

\* Math.floor((Date.now() - new Date(startedAt).getTime()) / 1000), 0 when
\* startedAt is null
Runtime(startedAt, t) ==
    IF startedAt # Null THEN (t - GetTime(startedAt[1])) \div 1000 ELSE 0

\* ----------------------------------------------------------------- state
VARIABLES
    hogState,     \* the controller's singleton: worker, config, startedAt
    workers,      \* worker threads by id: position (pc), module-level
                  \* variables, message port (inbox), pending terminate()
                  \* and, once ended, what ended it (exitBy)
    events,       \* per worker, its 'error'/'exit' events not yet delivered
    graceTimers,  \* pending setTimeout callbacks of stopHog: the time each is
                  \* due and, for the statement of properties only, the
                  \* worker its stopHog call signalled (target)
    now,          \* Date.now()
    nextId,       \* number of worker threads created so far
    res,          \* the response sent by the step just taken, if any
    ctlHist       \* the run of equal start/stop requests made last, two at most

vars == <<hogState, workers, events, graceTimers, now, nextId, res, ctlHist>>

WorkerIds == 1..MaxWorkers

NotRunning == [worker |-> Null, config |-> Null, startedAt |-> Null]

Unborn ==
    [pc |-> "unborn", config |-> Null, stopped |-> FALSE, chunks |-> 0,
     stopTimeout |-> Null, inbox |-> FALSE, terminateReq |-> FALSE,
     exitBy |-> "none"]

NoResponse ==
    [op |-> "none", code |-> 0, status |-> "none", config |-> Null,
     startedAt |-> Null, runtime |-> Null]

\* spawned and not yet terminated
Live(w) == workers[w].pc \notin {"unborn", "exited"}
LiveWorkers == { w \in WorkerIds : Live(w) }

Init ==
    /\ hogState = NotRunning
    /\ workers = [w \in WorkerIds |-> Unborn]
    /\ events = [w \in WorkerIds |-> <<>>]
    /\ graceTimers = {}
    /\ now = 0
    /\ nextId = 0
    /\ res = NoResponse
    /\ ctlHist = <<>>

\* the trailing run of equal requests after the request op
Push(h, op) == IF h # <<>> /\ h[1] = op THEN <<op, op>> ELSE <<op>>

\* worker.postMessage({type: 'stop'}): queued on the port of the thread,
\* dropped when the thread has ended
PostStop(ws, w) ==
    IF ws[w].pc # "exited" THEN [ws EXCEPT ![w].inbox = TRUE] ELSE ws

\* worker.terminate(): asks the thread to end, which it does asynchronously;
\* nothing to do when it has ended
Terminate(ws, w) ==
    IF ws[w].pc # "exited" THEN [ws EXCEPT ![w].terminateReq = TRUE] ELSE ws

\* ------------------------------------------------------------- controller
\* startHog as the API documentation describes it: a request made while a
\* worker is held is answered 409 already_running and changes nothing
StartHog_rejects(q, ok) ==
    IF hogState.worker # Null
    THEN /\ nextId < MaxWorkers
         /\ res' = [op |-> "start", code |-> 409, status |-> "already_running",
                    config |-> hogState.config, startedAt |-> hogState.startedAt,
                    runtime |-> Null]
         /\ ctlHist' = Push(ctlHist, "start")
         /\ UNCHANGED <<hogState, workers, events, graceTimers, now, nextId>>
    ELSE
          LET old == hogState.worker
              ws1 == IF old # Null THEN Terminate(PostStop(workers, old[1]), old[1])
                     ELSE workers
              hs1 == IF old # Null THEN NotRunning ELSE hogState
              config == parseConfig(q)
              id == nextId + 1
          IN  /\ nextId < MaxWorkers
              \* the clock of the model must be able to reach the expiry
              /\ now + config.maxMinutes * MinuteMs <= MaxInstant
              /\ IF ok
                 THEN /\ workers' = [ws1 EXCEPT ![id] = [Unborn EXCEPT !.pc = "boot",
                                                                    !.config =
                                              Some(JSONParse(JSONStringify(config)))]]
                      /\ nextId' = id
                      /\ hogState' = [worker |-> Some(id), config |-> Some(config),
                                      startedAt |-> Some(ToISOString(now))]
                      /\ res' = [op |-> "start", code |-> 202, status |-> "started",
                                 config |-> Some(config),
                                 startedAt |-> Some(ToISOString(now)), runtime |-> Null]
                      /\ ctlHist' = Push(ctlHist, "start")
                 ELSE /\ workers' = ws1
                      /\ nextId' = nextId
                      /\ hogState' = hs1
                      /\ res' = [NoResponse EXCEPT !.op = "start", !.code = 500,
                                                   !.status = "error"]
                      /\ ctlHist' = Push(ctlHist, "startfail")
              /\ UNCHANGED <<events, graceTimers, now>>

\* startHog putting the previous worker back when new Worker(...) throws
StartHog_restores(q, ok) ==
    LET old == hogState.worker
        ws1 == IF old # Null THEN Terminate(PostStop(workers, old[1]), old[1])
               ELSE workers
        hs1 == IF old # Null THEN NotRunning ELSE hogState
        config == parseConfig(q)
        id == nextId + 1
    IN  /\ nextId < MaxWorkers
        \* the clock of the model must be able to reach the expiry
        /\ now + config.maxMinutes * MinuteMs <= MaxInstant
        /\ IF ok
           THEN /\ workers' = [ws1 EXCEPT ![id] = [Unborn EXCEPT !.pc = "boot",
                                                              !.config =
                                              Some(JSONParse(JSONStringify(config)))]]
                /\ nextId' = id
                /\ hogState' = [worker |-> Some(id), config |-> Some(config),
                                startedAt |-> Some(ToISOString(now))]
                /\ res' = [op |-> "start", code |-> 202, status |-> "started",
                           config |-> Some(config),
                           startedAt |-> Some(ToISOString(now)), runtime |-> Null]
                /\ ctlHist' = Push(ctlHist, "start")
           ELSE /\ workers' = workers
                /\ nextId' = nextId
                /\ hogState' = hogState
                /\ res' = [NoResponse EXCEPT !.op = "start", !.code = 500,
                                             !.status = "error"]
                /\ ctlHist' = Push(ctlHist, "startfail")
        /\ UNCHANGED <<events, graceTimers, now>>

\* startHog with query q; ok tells whether new Worker(...) succeeds
StartHog(q, ok) ==
    LET old == hogState.worker
        ws1 == IF old # Null THEN Terminate(PostStop(workers, old[1]), old[1])
               ELSE workers
        hs1 == IF old # Null THEN NotRunning ELSE hogState
        config == parseConfig(q)
        id == nextId + 1
    IN  /\ nextId < MaxWorkers
        \* the clock of the model must be able to reach the expiry
        /\ now + config.maxMinutes * MinuteMs <= MaxInstant
        /\ IF ok
           THEN /\ workers' = [ws1 EXCEPT ![id] = [Unborn EXCEPT !.pc = "boot",
                                                              !.config =
                                              Some(JSONParse(JSONStringify(config)))]]
                /\ nextId' = id
                /\ hogState' = [worker |-> Some(id), config |-> Some(config),
                                startedAt |-> Some(ToISOString(now))]
                /\ res' = [op |-> "start", code |-> 202, status |-> "started",
                           config |-> Some(config),
                           startedAt |-> Some(ToISOString(now)), runtime |-> Null]
                /\ ctlHist' = Push(ctlHist, "start")
           ELSE /\ workers' = ws1
                /\ nextId' = nextId
                /\ hogState' = hs1
                /\ res' = [NoResponse EXCEPT !.op = "start", !.code = 500,
                                             !.status = "error"]
                /\ ctlHist' = Push(ctlHist, "startfail")
        /\ UNCHANGED <<events, graceTimers, now>>

\* stopHog reading startedAt after the state has been cleared
StopHog_lateRuntime ==
    /\ IF hogState.worker = Null
       THEN /\ res' = [NoResponse EXCEPT !.op = "stop", !.code = 200,
                                         !.status = "not_running"]
            /\ UNCHANGED <<hogState, workers, graceTimers>>
       ELSE /\ workers' = PostStop(workers, hogState.worker[1])
            /\ graceTimers' = graceTimers \cup
                   {[due |-> now + GraceMs, target |-> hogState.worker[1]]}
            /\ res' = [op |-> "stop", code |-> 200, status |-> "stopped",
                       config |-> hogState.config, startedAt |-> Null,
                       runtime |-> Some(Runtime(NotRunning.startedAt, now))]
            /\ hogState' = NotRunning
    /\ ctlHist' = Push(ctlHist, "stop")
    /\ UNCHANGED <<events, now, nextId>>

\* stopHog without the early return of the not-running case: the timer is
\* armed all the same
StopHog_noReturn ==
    /\ IF hogState.worker = Null
       THEN /\ res' = [NoResponse EXCEPT !.op = "stop", !.code = 200,
                                         !.status = "not_running"]
            /\ graceTimers' = graceTimers \cup {[due |-> now + GraceMs, target |-> 0]}
            /\ UNCHANGED <<hogState, workers>>
       ELSE /\ workers' = PostStop(workers, hogState.worker[1])
            /\ graceTimers' = graceTimers \cup
                   {[due |-> now + GraceMs, target |-> hogState.worker[1]]}
            /\ res' = [op |-> "stop", code |-> 200, status |-> "stopped",
                       config |-> hogState.config, startedAt |-> Null,
                       runtime |-> Some(Runtime(hogState.startedAt, now))]
            /\ hogState' = NotRunning
    /\ ctlHist' = Push(ctlHist, "stop")
    /\ UNCHANGED <<events, now, nextId>>

\* stopHog leaving the clearing of hogState to the grace timer
StopHog_noClear ==
    /\ IF hogState.worker = Null
       THEN /\ res' = [NoResponse EXCEPT !.op = "stop", !.code = 200,
                                         !.status = "not_running"]
            /\ UNCHANGED <<hogState, workers, graceTimers>>
       ELSE /\ workers' = PostStop(workers, hogState.worker[1])
            /\ graceTimers' = graceTimers \cup
                   {[due |-> now + GraceMs, target |-> hogState.worker[1]]}
            /\ res' = [op |-> "stop", code |-> 200, status |-> "stopped",
                       config |-> hogState.config, startedAt |-> Null,
                       runtime |-> Some(Runtime(hogState.startedAt, now))]
            /\ hogState' = hogState
    /\ ctlHist' = Push(ctlHist, "stop")
    /\ UNCHANGED <<events, now, nextId>>

\* stopHog
StopHog ==
    /\ IF hogState.worker = Null
       THEN /\ res' = [NoResponse EXCEPT !.op = "stop", !.code = 200,
                                         !.status = "not_running"]
            /\ UNCHANGED <<hogState, workers, graceTimers>>
       ELSE /\ workers' = PostStop(workers, hogState.worker[1])
            /\ graceTimers' = graceTimers \cup
                   {[due |-> now + GraceMs, target |-> hogState.worker[1]]}
            /\ res' = [op |-> "stop", code |-> 200, status |-> "stopped",
                       config |-> hogState.config, startedAt |-> Null,
                       runtime |-> Some(Runtime(hogState.startedAt, now))]
            /\ hogState' = NotRunning
    /\ ctlHist' = Push(ctlHist, "stop")
    /\ UNCHANGED <<events, now, nextId>>

\* a status request that forgets a generator it finds ended
GetHogStatus_prunes ==
    /\ res' = IF hogState.worker = Null
              THEN [NoResponse EXCEPT !.op = "status", !.code = 200,
                                      !.status = "not_running"]
              ELSE [op |-> "status", code |-> 200, status |-> "running",
                    config |-> hogState.config, startedAt |-> hogState.startedAt,
                    runtime |-> Some(Runtime(hogState.startedAt, now))]
    /\ hogState' = IF hogState.worker # Null /\ ~Live(hogState.worker[1])
                   THEN NotRunning ELSE hogState
    /\ UNCHANGED <<workers, events, graceTimers, now, nextId, ctlHist>>

\* getHogStatus
GetHogStatus ==
    /\ res' = IF hogState.worker = Null
              THEN [NoResponse EXCEPT !.op = "status", !.code = 200,
                                      !.status = "not_running"]
              ELSE [op |-> "status", code |-> 200, status |-> "running",
                    config |-> hogState.config, startedAt |-> hogState.startedAt,
                    runtime |-> Some(Runtime(hogState.startedAt, now))]
    /\ UNCHANGED <<hogState, workers, events, graceTimers, now, nextId, ctlHist>>

\* the setTimeout callback of stopHog, run once its second has elapsed
GraceFire(t) ==
    /\ t \in graceTimers
    /\ now >= t.due
    /\ graceTimers' = graceTimers \ {t}
    /\ IF hogState.worker # Null
       THEN /\ workers' = Terminate(workers, hogState.worker[1])
            /\ hogState' = NotRunning
       ELSE UNCHANGED <<hogState, workers>>
    /\ res' = NoResponse
    /\ UNCHANGED <<events, now, nextId, ctlHist>>

\* an event handler that clears the worker handle only
WorkerEvent_handleOnly(w) ==
    /\ events[w] # <<>>
    /\ events' = [events EXCEPT ![w] = Tail(@)]
    /\ hogState' = [hogState EXCEPT !.worker = Null]
    /\ res' = NoResponse
    /\ UNCHANGED <<workers, graceTimers, now, nextId, ctlHist>>

\* a controller that subscribes to 'exit' and ignores 'error'
WorkerEvent_exitOnly(w) ==
    /\ events[w] # <<>>
    /\ events' = [events EXCEPT ![w] = Tail(@)]
    /\ hogState' = IF Head(events[w]) = "error" THEN hogState ELSE NotRunning
    /\ res' = NoResponse
    /\ UNCHANGED <<workers, graceTimers, now, nextId, ctlHist>>

\* worker.on('error') / worker.on('exit') of the worker w
WorkerEvent(w) ==
    /\ events[w] # <<>>
    /\ events' = [events EXCEPT ![w] = Tail(@)]
    /\ hogState' = NotRunning
    /\ res' = NoResponse
    /\ UNCHANGED <<workers, graceTimers, now, nextId, ctlHist>>

\* ----------------------------------------------------------------- worker
\* process.exit(code) in the thread, or the end of the thread by terminate()
\* or an uncaught exception: the thread is gone and its events are queued
Exit(ws, w, by) ==
    [ws EXCEPT ![w].pc = "exited", ![w].exitBy = by, ![w].chunks = 0,
               ![w].stopped = FALSE, ![w].stopTimeout = Null,
               ![w].inbox = FALSE, ![w].terminateReq = FALSE]

\* the auto-stop timer has reached its time
ExpiryDue(w) ==
    /\ workers[w].stopTimeout # Null
    /\ now >= workers[w].stopTimeout[1]

\* a main script that does not arm the auto-stop timer
WorkerBoot_noTimer(w) ==
    /\ workers[w].pc = "boot"
    /\ LET cfg == workers[w].config[1]
       IN  workers' = [workers EXCEPT
               ![w].pc = IF cfg.memoryMb > 0 THEN "alloc" ELSE "loop"]
    /\ res' = NoResponse
    /\ UNCHANGED <<hogState, events, graceTimers, now, nextId, ctlHist>>

\* the main script up to the first statement of allocateMemory or cpuLoop:
\* the message listener is registered and the auto-stop timer armed
WorkerBoot(w) ==
    /\ workers[w].pc = "boot"
    /\ LET cfg == workers[w].config[1]
       IN  workers' = [workers EXCEPT
               ![w].stopTimeout = Some(now + cfg.maxMinutes * 60 * 1000),
               ![w].pc = IF cfg.memoryMb > 0 THEN "alloc" ELSE "loop"]
    /\ res' = NoResponse
    /\ UNCHANGED <<hogState, events, graceTimers, now, nextId, ctlHist>>

\* an allocation that stops before a chunk that would pass the target
AllocStep_stopsShort(w, fault) ==
    /\ workers[w].pc = "alloc"
    /\ LET targetBytes == workers[w].config[1].memoryMb * MiB
           allocated == workers[w].chunks * ChunkSize
       IN  IF allocated + ChunkSize <= targetBytes /\ ~workers[w].stopped
           THEN IF fault
                THEN /\ workers' = Exit(workers, w, "fault")
                     /\ events' = [events EXCEPT ![w] = <<"error", "exit">>]
                ELSE /\ workers' = [workers EXCEPT ![w].chunks = @ + 1]
                     /\ UNCHANGED events
           ELSE /\ ~fault
                /\ workers' = [workers EXCEPT ![w].pc = "loop"]
                /\ UNCHANGED events
    /\ res' = NoResponse
    /\ UNCHANGED <<hogState, graceTimers, now, nextId, ctlHist>>

\* one test of the while condition of allocateMemory and, when it holds, one
\* chunk; fault tells whether Buffer.alloc throws
AllocStep(w, fault) ==
    /\ workers[w].pc = "alloc"
    /\ LET targetBytes == workers[w].config[1].memoryMb * MiB
           allocated == workers[w].chunks * ChunkSize
       IN  IF allocated < targetBytes /\ ~workers[w].stopped
           THEN IF fault
                THEN /\ workers' = Exit(workers, w, "fault")
                     /\ events' = [events EXCEPT ![w] = <<"error", "exit">>]
                ELSE /\ workers' = [workers EXCEPT ![w].chunks = @ + 1]
                     /\ UNCHANGED events
           ELSE /\ ~fault
                /\ workers' = [workers EXCEPT ![w].pc = "loop"]
                /\ UNCHANGED events
    /\ res' = NoResponse
    /\ UNCHANGED <<hogState, graceTimers, now, nextId, ctlHist>>

\* one run of cpuLoop: the test of stopped, the burst of burnCPU, and
\* setImmediate(cpuLoop), which hands over to the event loop
CpuLoop(w) ==
    /\ workers[w].pc = "loop"
    /\ IF workers[w].stopped
       THEN /\ workers' = Exit(workers, w, "loop")
            /\ events' = [events EXCEPT ![w] = <<"exit">>]
       ELSE /\ workers' = [workers EXCEPT ![w].pc = "timers"]
            /\ UNCHANGED events
    /\ res' = NoResponse
    /\ UNCHANGED <<hogState, graceTimers, now, nextId, ctlHist>>

\* an auto-stop callback that sets stopped and leaves the exit to cpuLoop
TimersPhase_flagOnly(w) ==
    /\ workers[w].pc = "timers"
    /\ IF ExpiryDue(w)
       THEN workers' = [workers EXCEPT ![w].stopped = TRUE, ![w].pc = "poll"]
       ELSE workers' = [workers EXCEPT ![w].pc = "poll"]
    /\ res' = NoResponse
    /\ UNCHANGED <<hogState, events, graceTimers, now, nextId, ctlHist>>

\* an auto-stop callback that also resets the state of the controller
TimersPhase_clearsState(w) ==
    /\ workers[w].pc = "timers"
    /\ IF ExpiryDue(w)
       THEN /\ workers' = Exit([workers EXCEPT ![w].stopped = TRUE], w, "expiry")
            /\ events' = [events EXCEPT ![w] = <<"exit">>]
            /\ hogState' = NotRunning
       ELSE /\ workers' = [workers EXCEPT ![w].pc = "poll"]
            /\ UNCHANGED <<events, hogState>>
    /\ res' = NoResponse
    /\ UNCHANGED <<graceTimers, now, nextId, ctlHist>>

\* an event loop that goes from its timers straight back to cpuLoop
TimersPhase_noPoll(w) ==
    /\ workers[w].pc = "timers"
    /\ IF ExpiryDue(w)
       THEN /\ workers' = Exit([workers EXCEPT ![w].stopped = TRUE], w, "expiry")
            /\ events' = [events EXCEPT ![w] = <<"exit">>]
       ELSE /\ workers' = [workers EXCEPT ![w].pc = "loop"]
            /\ UNCHANGED events
    /\ res' = NoResponse
    /\ UNCHANGED <<hogState, graceTimers, now, nextId, ctlHist>>

\* timers phase of the event loop: the auto-stop callback when it is due
TimersPhase(w) ==
    /\ workers[w].pc = "timers"
    /\ IF ExpiryDue(w)
       THEN /\ workers' = Exit([workers EXCEPT ![w].stopped = TRUE], w, "expiry")
            /\ events' = [events EXCEPT ![w] = <<"exit">>]
       ELSE /\ workers' = [workers EXCEPT ![w].pc = "poll"]
            /\ UNCHANGED events
    /\ res' = NoResponse
    /\ UNCHANGED <<hogState, graceTimers, now, nextId, ctlHist>>

\* a thread without a 'message' listener
PollPhase_noListener(w) ==
    /\ workers[w].pc = "poll"
    /\ workers' = [workers EXCEPT ![w].pc = "loop"]
    /\ res' = NoResponse
    /\ UNCHANGED <<hogState, events, graceTimers, now, nextId, ctlHist>>

\* poll phase of the event loop: the 'message' listener when a stop message
\* is queued, then the check phase runs cpuLoop
PollPhase(w) ==
    /\ workers[w].pc = "poll"
    /\ IF workers[w].inbox
       THEN /\ workers' = Exit([workers EXCEPT ![w].stopped = TRUE,
                                               ![w].stopTimeout = Null], w, "stop")
            /\ events' = [events EXCEPT ![w] = <<"exit">>]
       ELSE /\ workers' = [workers EXCEPT ![w].pc = "loop"]
            /\ UNCHANGED events
    /\ res' = NoResponse
    /\ UNCHANGED <<hogState, graceTimers, now, nextId, ctlHist>>

\* a terminate() request takes effect, wherever the thread is
TerminateEffect(w) ==
    /\ Live(w)
    /\ workers[w].terminateReq
    /\ workers' = Exit(workers, w, "terminate")
    /\ events' = [events EXCEPT ![w] = <<"exit">>]
    /\ res' = NoResponse
    /\ UNCHANGED <<hogState, graceTimers, now, nextId, ctlHist>>

\* ------------------------------------------------------------------ clock
\* time passes up to a later instant; a thread that has not yet armed its
\* timer keeps the clock within reach of its expiry
Tick(t) ==
    /\ t \in Instants
    /\ t > now
    /\ \A w \in WorkerIds :
          workers[w].pc = "boot" =>
              t + workers[w].config[1].maxMinutes * MinuteMs <= MaxInstant
    /\ now' = t
    /\ res' = NoResponse
    /\ UNCHANGED <<hogState, workers, events, graceTimers, nextId, ctlHist>>

\* ---------------------------------------------------------- specification
Next ==
    \/ \E q \in Queries, ok \in BOOLEAN : StartHog(q, ok)
    \/ StopHog
    \/ GetHogStatus
    \/ \E t \in graceTimers : GraceFire(t)
    \/ \E w \in WorkerIds : WorkerEvent(w)
    \/ \E w \in WorkerIds : WorkerBoot(w)
    \/ \E w \in WorkerIds, fault \in BOOLEAN : AllocStep(w, fault)
    \/ \E w \in WorkerIds : CpuLoop(w)
    \/ \E w \in WorkerIds : TimersPhase(w)
    \/ \E w \in WorkerIds : PollPhase(w)
    \/ \E w \in WorkerIds : TerminateEffect(w)
    \/ \E t \in Instants : Tick(t)

Spec == Init /\ [][Next]_vars

\* the scheduler runs every thread and every queued callback, and time passes
Fairness ==
    /\ \A w \in WorkerIds :
          /\ WF_vars(WorkerBoot(w))
          /\ WF_vars(AllocStep(w, FALSE))
          /\ WF_vars(CpuLoop(w))
          /\ WF_vars(TimersPhase(w))
          /\ WF_vars(PollPhase(w))
          /\ WF_vars(TerminateEffect(w))
          /\ WF_vars(WorkerEvent(w))
    /\ WF_vars(\E t \in Instants : Tick(t))

\* every request, under the scheduler
FairSpec == Spec /\ Fairness

\* one generator is started and the controller is never asked to stop it or
\* to start another
NextExpiry ==
    \/ \E q \in Queries, ok \in BOOLEAN : nextId = 0 /\ StartHog(q, ok)
    \/ GetHogStatus
    \/ \E w \in WorkerIds : WorkerEvent(w)
    \/ \E w \in WorkerIds : WorkerBoot(w)
    \/ \E w \in WorkerIds, fault \in BOOLEAN : AllocStep(w, fault)
    \/ \E w \in WorkerIds : CpuLoop(w)
    \/ \E w \in WorkerIds : TimersPhase(w)
    \/ \E w \in WorkerIds : PollPhase(w)
    \/ \E t \in Instants : Tick(t)

ExpirySpec == Init /\ [][NextExpiry]_vars /\ Fairness

\* parseConfig on its own: a raw query is drawn, then parsed
ParseInit ==
    /\ hogState = NotRunning
    /\ workers = [w \in WorkerIds |-> Unborn]
    /\ events = [w \in WorkerIds |-> <<>>]
    /\ graceTimers = {}
    /\ now = 0
    /\ nextId = 0
    /\ res \in { [op |-> "input", query |-> q] : q \in RawQueries }
    /\ ctlHist = <<>>

ParseConfig ==
    /\ res.op = "input"
    /\ res' = [op |-> "parse", query |-> res.query,
               config |-> parseConfig(res.query)]
    /\ UNCHANGED <<hogState, workers, events, graceTimers, now, nextId, ctlHist>>

\* a configuration handed to parseConfig as the query: `n || 'dflt'` takes
\* the number 0 as falsy, like an absent parameter, and parseInt reads any
\* other number through its decimal string
ConfigAsQuery(config) ==
    [k \in DOMAIN config |->
        IF config[k] = 0 THEN <<>> ELSE IntToStr(config[k])]

\* parseConfig applied to the configuration it has returned
ParseAgain ==
    /\ res.op = "parse"
    /\ res' = [op |-> "reparse", query |-> res.query, config |-> res.config,
               again |-> parseConfig(ConfigAsQuery(res.config))]
    /\ UNCHANGED <<hogState, workers, events, graceTimers, now, nextId, ctlHist>>

ParseNext == ParseConfig \/ ParseAgain

ParseSpec == ParseInit /\ [][ParseNext]_vars

\* ------------------------------------------------------------------ claims

\* C1: in every reachable state at most one load generator is live (spawned
\* and not yet terminated).
C1_AtMostOneLive == Cardinality(LiveWorkers) <= 1

\* C2: after two starts in succession with no stop, and while the second
\* generator is live, hogState holds the second generator with the
\* configuration it was started with, also once the first generator's exit
\* event has been delivered.
C2_SecondStartWins ==
    (ctlHist = <<"start", "start">> /\ Live(nextId))
        => /\ hogState.worker = Some(nextId)
           /\ hogState.config = workers[nextId].config

\* C3: the three fields of hogState are set or cleared together: worker is
\* non-null iff config is non-null iff startedAt is non-null.
C3_FieldsTogether ==
    /\ (hogState.worker # Null) <=> (hogState.config # Null)
    /\ (hogState.config # Null) <=> (hogState.startedAt # Null)

C3_Witness ==
    /\ hogState.worker = Some(2)
    /\ hogState.config # Null
    /\ hogState.startedAt # Null

\* C4: a stop request made while hogState holds a generator answers stopped
\* with that generator's configuration and the whole seconds elapsed since its
\* recorded start, and leaves hogState cleared, whether or not the generator
\* has exited.
C4_StopActive ==
    [][(hogState.worker # Null /\ res'.op = "stop")
         => /\ res'.status = "stopped"
            /\ res'.config = hogState.config
            /\ hogState.startedAt # Null
            /\ res'.runtime =
                   Some((now - GetTime(hogState.startedAt[1])) \div 1000)
            /\ hogState' = NotRunning]_vars

C4_Witness ==
    /\ res.op = "stop"
    /\ res.status = "stopped"
    /\ res.runtime = Some(1)
    /\ hogState = NotRunning
    /\ \E w \in WorkerIds : Live(w) /\ workers[w].inbox

\* C5: a stop request made while hogState holds no generator answers
\* not_running and changes nothing: hogState, the worker threads (no stop
\* message, no termination), the grace timers and the pending events.
C5_StopIdle ==
    [][(hogState.worker = Null /\ res'.op = "stop")
         => /\ res'.status = "not_running"
            /\ UNCHANGED <<hogState, workers, graceTimers, events>>]_vars

C5_Witness ==
    /\ res.op = "stop"
    /\ res.status = "not_running"
    /\ ctlHist = <<"stop">>

\* C6: a stop request that follows a stop request with no start in between
\* answers not_running and changes nothing, whatever worker events and grace
\* timers ran between the two.
C6_StopIdempotent ==
    [][(ctlHist # <<>> /\ ctlHist[1] = "stop" /\ res'.op = "stop")
         => /\ res'.status = "not_running"
            /\ UNCHANGED <<hogState, workers, graceTimers, events>>]_vars

C6_Witness ==
    /\ res.op = "stop"
    /\ res.status = "not_running"
    /\ ctlHist = <<"stop", "stop">>
    /\ nextId > 0
    /\ graceTimers # {}

\* C7: when the grace timer armed by a stop request runs and the generator
\* this request signalled is still live, the timer asks for the termination
\* of that generator.
C7_GraceTerminatesTarget ==
    [][\A t \in graceTimers :
          (t \notin graceTimers' /\ Live(t.target))
              => workers'[t.target].terminateReq]_vars

C9_SelfExpiry ==
    /\ \A w \in WorkerIds :
          Live(w) ~> /\ workers[w].pc = "exited"
                     /\ workers[w].exitBy \in {"expiry", "fault"}
                     /\ events[w] = <<>>
    /\ [](\A w \in WorkerIds :
            (workers[w].pc = "exited" /\ events[w] = <<>>)
                => /\ hogState = NotRunning
                   /\ res.op = "status" => res.status = "not_running")

C9_Witness ==
    \E w \in WorkerIds :
        /\ workers[w].exitBy = "expiry"
        /\ events[w] = <<>>
        /\ res.op = "status"
        /\ res.status = "not_running"

\* C10: a status request answers not_running exactly when hogState holds no
\* generator, and otherwise running with the recorded config and startedAt
\* and the whole seconds from startedAt to now; made right after a successful
\* start it repeats the config and startedAt of the start's answer with
\* runtime 0.
C10_Status ==
    /\ [](res.op = "status" =>
            /\ (res.status = "not_running") <=> (hogState.worker = Null)
            /\ (res.status = "running") <=> (hogState.worker # Null)
            /\ res.status = "running" =>
                 /\ res.config = hogState.config
                 /\ res.startedAt = hogState.startedAt
                 /\ res.runtime =
                        Some((now - GetTime(hogState.startedAt[1])) \div 1000))
    /\ [][(res.op = "start" /\ res.status = "started" /\ res'.op = "status")
            => /\ res'.status = "running"
               /\ res'.config = res.config
               /\ res'.startedAt = res.startedAt
               /\ res'.runtime = Some(0)]_vars

C10_Witness ==
    /\ res.op = "status"
    /\ res.status = "running"
    /\ res.startedAt = Some(ToISOString(StepMs))
    /\ res.runtime = Some(0)
    /\ ctlHist = <<"start">>

C12_OldEndsBeforeNew ==
    [][(hogState.worker # Null /\ nextId' = nextId + 1)
         => workers'[hogState.worker[1]].pc = "exited"]_vars

\* the documented range and default of each field
FieldRanges ==
    { [name |-> "memoryMb", lo |-> 0, hi |-> 2048, dflt |-> 256],
      [name |-> "cpuSliceMs", lo |-> 1, hi |-> 200, dflt |-> 20],
      [name |-> "maxMinutes", lo |-> 1, hi |-> 120, dflt |-> 10],
      [name |-> "intensityMultiplier", lo |-> 1, hi |-> 100, dflt |-> 2] }

\* n clamped into lo..hi
Clamp(n, lo, hi) == IF n < lo THEN lo ELSE IF n > hi THEN hi ELSE n

\* a raw value that is missing or does not start with a number
NonNumeric(raw) == raw = <<>> \/ ParseInt(raw) = Null

\* C13: for every raw query, parseConfig returns a configuration whose
\* memoryMb is in 0..2048, cpuSliceMs in 1..200, maxMinutes in 1..120 and
\* intensityMultiplier in 1..100.
C13_ParseInBounds ==
    res.op = "parse" =>
        /\ res.config.memoryMb \in 0..2048
        /\ res.config.cpuSliceMs \in 1..200
        /\ res.config.maxMinutes \in 1..120
        /\ res.config.intensityMultiplier \in 1..100

C13_Witness ==
    /\ res.op = "parse"
    /\ res.query.memoryMb = <<"5", "0", "0", "0">>
    /\ res.config.memoryMb = 2048
    /\ res.query.cpuSliceMs = <<"-", "5">>
    /\ res.config.cpuSliceMs = 1
    /\ res.query.maxMinutes = <<>>
    /\ res.config.maxMinutes = 10
    /\ res.query.intensityMultiplier = <<"a", "b", "c">>
    /\ res.config.intensityMultiplier = 2

\* C14: for every field whose raw value is read as the integer n, parseConfig
\* returns n clamped into the range of the field: lo below it, hi above it,
\* n itself inside it (0 for memoryMb=0, 1 for cpuSliceMs=0).
C14_ParseClamps ==
    res.op = "parse" =>
        \A f \in FieldRanges :
            ~NonNumeric(res.query[f.name])
                => res.config[f.name] =
                       Clamp(ParseInt(res.query[f.name])[1], f.lo, f.hi)

\* C15: a field whose raw value is missing or non-numeric gets the default of
\* the field, whatever the other fields are, and no other field does: a
\* numeric value is given its clamp.
C15_ParseDefaults ==
    res.op = "parse" =>
        \A f \in FieldRanges :
            /\ NonNumeric(res.query[f.name]) => res.config[f.name] = f.dflt
            /\ (res.config[f.name] = f.dflt /\ ~NonNumeric(res.query[f.name]))
                   => Clamp(ParseInt(res.query[f.name])[1], f.lo, f.hi) = f.dflt

\* the controller takes the next queued event of the generator w
Delivered(w) == events[w] # <<>> /\ events'[w] = Tail(events[w])

\* the generator w, already created, moves: a statement of its script, a
\* phase of its event loop, or its end
GeneratorStep(w) ==
    workers[w].pc # "unborn" /\ workers'[w].pc # workers[w].pc

\* C16: when the controller takes an error or exit event of the generator
\* hogState holds, hogState is NOT_RUNNING afterwards, whether or not a stop
\* message had been posted to that generator; the step answers no request,
\* and a failure answer is only ever the answer of a start whose worker could
\* not be created.
C16_EventClears ==
    [][/\ \A w \in WorkerIds :
            (Delivered(w) /\ hogState.worker = Some(w))
                => hogState' = NotRunning /\ res' = NoResponse
       /\ res'.status = "error"
            => res'.op = "start" /\ nextId' = nextId /\ UNCHANGED events]_vars

C16_Witness ==
    /\ workers[1].exitBy = "fault"
    /\ events[1] = <<"exit">>
    /\ hogState = NotRunning
    /\ nextId = 1
    /\ graceTimers = {}
    /\ ctlHist = <<"start">>

\* C17: a start whose worker cannot be created is answered with a failure,
\* never with started, creates no generator and leaves hogState NOT_RUNNING;
\* a generator hogState held before has been sent stop and terminate() and
\* is not put back.
C17_FailedStartClears ==
    [][(res'.op = "start" /\ nextId' = nextId)
          => /\ res'.status = "error"
             /\ res'.code = 500
             /\ hogState' = NotRunning
             /\ (hogState.worker # Null /\ Live(hogState.worker[1]))
                   => /\ workers'[hogState.worker[1]].inbox
                      /\ workers'[hogState.worker[1]].terminateReq]_vars

C17_Witness ==
    /\ res.op = "start"
    /\ res.status = "error"
    /\ hogState = NotRunning
    /\ nextId = 1
    /\ ctlHist = <<"startfail">>
    /\ Live(1)
    /\ workers[1].inbox
    /\ workers[1].terminateReq
    /\ graceTimers = {}

\* C18: when the grace timer armed by a stop request runs and the generator
\* this request signalled has already ended, nothing happens: hogState and
\* every generator stay as they are.
C18_LateGraceNoOp ==
    [][\A t \in graceTimers :
          (t \notin graceTimers' /\ ~Live(t.target))
              => UNCHANGED <<hogState, workers>>]_vars

\* C19: a start request made while hogState holds a generator is answered
\* 409 already_running with the config and startedAt of that generator, and
\* hogState and the generators stay as they are.
C19_StartRejected ==
    [][(hogState.worker # Null /\ res'.op = "start")
          => /\ res'.code = 409
             /\ res'.status = "already_running"
             /\ res'.config = hogState.config
             /\ res'.startedAt = hogState.startedAt
             /\ UNCHANGED <<hogState, workers>>]_vars

\* C20: no step of a generator (its script, its event loop, its end) and no
\* passing of time changes hogState; hogState changes only in a start or
\* stop request, in the grace timer callback, or when the controller takes
\* an exit or error event, and a generator step leaves to the controller at
\* most the events of that generator.
C20_ControllerOwnsState ==
    [][/\ (\E w \in WorkerIds : GeneratorStep(w))
            => /\ hogState' = hogState
               /\ UNCHANGED <<graceTimers, nextId, ctlHist>>
               /\ res' = NoResponse
       /\ now' # now => hogState' = hogState
       /\ hogState' # hogState
            => \/ res'.op \in {"start", "stop"}
               \/ \E t \in graceTimers : t \notin graceTimers'
               \/ \E w \in WorkerIds : Delivered(w)]_vars

C20_Witness ==
    \E w \in WorkerIds :
        /\ workers[w].exitBy = "expiry"
        /\ events[w] = <<"exit">>
        /\ hogState.worker = Some(w)
        /\ hogState.config = workers[w].config

\* C21: a generator a stop message was posted to ends, whether the message
\* came during its script, its allocation or its bursts; a thread that
\* reaches the poll phase with the message queued ends there (by its listener
\* or by a terminate() asked for meanwhile) and starts no further burst, and
\* a thread that has ended has no timer left and runs no further statement.
C21_StoppedTerminates ==
    /\ \A w \in WorkerIds : workers[w].inbox ~> workers[w].pc = "exited"
    /\ [][\A w \in WorkerIds :
            /\ (workers[w].pc = "poll" /\ workers[w].inbox
                   /\ workers'[w].pc # "poll")
                 => /\ workers'[w].pc = "exited"
                    /\ workers'[w].exitBy \in {"stop", "terminate"}
            /\ workers[w].pc = "exited"
                 => /\ workers'[w].pc = "exited"
                    /\ workers'[w].stopTimeout = Null
                    /\ workers'[w].exitBy = workers[w].exitBy]_vars

C21_Witness ==
    \E w \in WorkerIds :
        /\ workers[w].exitBy = "stop"
        /\ workers[w].chunks = 0
        /\ workers[w].config[1].memoryMb > 0
        /\ events[w] = <<"exit">>

\* C22: once a stop message is queued for a generator in its allocation,
\* the next test of the loop ends the allocation: no chunk is allocated by a
\* step that begins with the message queued.
C22_StopEndsAllocation ==
    [][\A w \in WorkerIds :
          (workers[w].pc = "alloc" /\ workers[w].inbox)
              => workers'[w].chunks <= workers[w].chunks]_vars

\* the bytes the generator w holds, and the bytes it was asked for
AllocatedBytes(w) == workers[w].chunks * ChunkSize
TargetBytes(w) == workers[w].config[1].memoryMb * MiB

\* C23: a generator that has left its allocation holds the smallest multiple
\* of 8 MiB that is at least memoryMb MiB (nothing for memoryMb 0, less than
\* memoryMb + 8 MiB); during the allocation it holds less than 8 MiB more
\* than the target; a step that leaves it live releases no chunk.
C23_AllocatesTarget ==
    /\ [](\A w \in WorkerIds :
            /\ workers[w].pc \in {"loop", "timers", "poll"}
                 => /\ AllocatedBytes(w) >= TargetBytes(w)
                    /\ AllocatedBytes(w) < TargetBytes(w) + ChunkSize
                    /\ AllocatedBytes(w) <= TargetBytes(w) + 7 * MiB
                    /\ TargetBytes(w) = 0 => workers[w].chunks = 0
            /\ workers[w].pc = "alloc"
                 => AllocatedBytes(w) < TargetBytes(w) + ChunkSize
            /\ workers[w].pc = "boot" => workers[w].chunks = 0)
    /\ [][\A w \in WorkerIds :
            (Live(w) /\ workers'[w].pc \notin {"unborn", "exited"})
                => workers'[w].chunks >= workers[w].chunks]_vars

C23_Witness ==
    \E w \in WorkerIds :
        /\ workers[w].pc = "timers"
        /\ workers[w].config[1].memoryMb = 12
        /\ workers[w].chunks = 2
        /\ workers[w].inbox

\* C24: after every burst cpuLoop hands over to the event loop, and cpuLoop
\* runs no burst when stopped is set; a generator whose burst has ended with
\* a stop message queued, or with its expiry due, runs no further burst: it
\* goes through the phases of the event loop and ends there.
C24_YieldBetweenBursts ==
    [][\A w \in WorkerIds :
          /\ (workers[w].pc = "loop" /\ workers'[w].pc # "loop")
               => /\ workers'[w].pc \in {"timers", "exited"}
                  /\ workers[w].stopped => workers'[w].pc = "exited"
          /\ (workers[w].pc \in {"timers", "poll"} /\ workers[w].inbox)
               => workers'[w].pc \in {"timers", "poll", "exited"}
          /\ (workers[w].pc = "timers" /\ ExpiryDue(w))
               => workers'[w].pc \in {"timers", "exited"}]_vars

C24_Witness ==
    \E w \in WorkerIds :
        /\ workers[w].pc = "poll"
        /\ workers[w].inbox
        /\ ~workers[w].terminateReq
        /\ workers[w].stopTimeout # Null
        /\ hogState.worker = Null

\* C25: whenever hogState holds a generator, its config is the configuration
\* that generator reads from HOG_CONFIG and its startedAt is set; the start
\* that creates a generator answers with the config and startedAt it records,
\* and both stay as they are for as long as hogState holds that generator.
C25_RecordedConfig ==
    /\ [](hogState.worker # Null
            => /\ hogState.config = workers[hogState.worker[1]].config
               /\ hogState.config # Null
               /\ hogState.startedAt # Null)
    /\ [][/\ nextId' = nextId + 1
               => /\ hogState'.worker = Some(nextId')
                  /\ res'.config = hogState'.config
                  /\ res'.startedAt = hogState'.startedAt
                  /\ res'.startedAt = Some(ToISOString(now))
                  /\ \E q \in Queries : res'.config = Some(parseConfig(q))
          /\ (hogState.worker # Null /\ hogState'.worker = hogState.worker)
               => /\ hogState'.config = hogState.config
                  /\ hogState'.startedAt = hogState.startedAt]_vars

C25_Witness ==
    /\ hogState.worker = Some(2)
    /\ hogState.config = workers[2].config
    /\ hogState.config # workers[1].config
    /\ Live(1)
    /\ workers[2].pc = "alloc"
    /\ hogState.startedAt = Some(ToISOString(StepMs))

\* C26: every live generator is the one hogState holds, or has a stop
\* message or a terminate() request of the controller pending.
C26_NoOrphan ==
    \A w \in WorkerIds :
        Live(w) => \/ hogState.worker = Some(w)
                   \/ workers[w].inbox
                   \/ workers[w].terminateReq

\* C27: an exit or error event of a generator that hogState does not hold
\* leaves hogState as it is.
C27_StaleEventIgnored ==
    [][\A w \in WorkerIds :
          (Delivered(w) /\ hogState.worker # Some(w)) => hogState' = hogState]_vars

\* C28: the grace timer armed by a stop request changes no generator other
\* than the one that request signalled, and leaves hogState as it is when
\* hogState holds another generator.
C28_GraceOnlyTarget ==
    [][\A t \in graceTimers :
          t \notin graceTimers'
              => /\ \A w \in WorkerIds \ {t.target} : workers'[w] = workers[w]
                 /\ (hogState.worker # Null /\ hogState.worker # Some(t.target))
                       => hogState' = hogState]_vars

\* C29: a status request leaves hogState, the grace timers, every generator
\* and its queued events as they are, and a status request that directly
\* follows another returns the same status, config and startedAt.
C29_StatusReadOnly ==
    [][res'.op = "status"
          => /\ UNCHANGED <<hogState, workers, events, graceTimers, now, nextId>>
             /\ res'.code = 200
             /\ res'.status = IF hogState.worker = Null
                              THEN "not_running" ELSE "running"
             /\ res.op = "status"
                  => /\ res'.status = res.status
                     /\ res'.config = res.config
                     /\ res'.startedAt = res.startedAt]_vars

C29_Witness ==
    /\ res.op = "status"
    /\ res.status = "running"
    /\ res.config = hogState.config
    /\ hogState.worker # Null
    /\ ~Live(hogState.worker[1])
    /\ graceTimers # {}

\* C30: parseConfig applied to a configuration it has returned gives that
\* configuration back, field by field, also when its memoryMb is 0.
C30_ParseIdempotent ==
    res.op = "reparse" => res.again = res.config

====
